---- MODULE Spec2Model ----
(***************************************************************************)
(* autogallery (src/tkdm/autogallery.py): main() walks the input root,     *)
(* submits one render_subdir task per directory unit to a process pool,    *)
(* collects the results as they complete and writes index.html.            *)
(*                                                                         *)
(* Strings are sequences of one-character strings, paths are sequences of  *)
(* components (pathlib's parts), so that Path.name, Path.stem, Path.suffix *)
(* and the ordinal comparison used by sorted() are computed, not assumed.  *)
(***************************************************************************)
EXTENDS Integers, Sequences, FiniteSets, TLC

(***************************************************************************)
(* Bounds of the model                                                     *)
(***************************************************************************)
MaxFiles == 2      \* files directly in the directory units, all together
MaxThreads == 2    \* --threads
MaxSide == 8       \* width and height of a source image, in pixels
MaxHeight == 6     \* --yres

(***************************************************************************)
(* Strings and paths                                                       *)
(***************************************************************************)
Dot == <<".">>
DotDot == <<".", ".">>
NameA == <<"a">>
NameB == <<"b">>
JpgExt == <<".", "j", "p", "g">>
ThumbExt == <<".", "t", "h", "u", "m", "b", ".", "j", "p", "g">>

\* ord(): the code point of a character
CodePoint(c) ==
    CASE c = "." -> 46
      [] c = "J" -> 74
      [] c = "P" -> 80
      [] c = "G" -> 71
      [] c = "a" -> 97
      [] c = "b" -> 98
      [] c = "d" -> 100
      [] c = "g" -> 103
      [] c = "h" -> 104
      [] c = "j" -> 106
      [] c = "m" -> 109
      [] c = "n" -> 110
      [] c = "p" -> 112
      [] c = "r" -> 114
      [] c = "t" -> 116
      [] c = "u" -> 117
      [] c = "w" -> 119
      [] c = "x" -> 120
      [] c = "y" -> 121
      [] c = "z" -> 122

\* str.lower() on one character
LowerChar(c) ==
    CASE c = "J" -> "j"
      [] c = "P" -> "p"
      [] c = "G" -> "g"
      [] OTHER -> c

Lower(s) == [i \in 1..Len(s) |-> LowerChar(s[i])]

\* Python's str < str: lexicographic on code points
RECURSIVE StrLess(_, _)
StrLess(s, t) ==
    IF t = <<>> THEN FALSE
    ELSE IF s = <<>> THEN TRUE
    ELSE IF CodePoint(Head(s)) < CodePoint(Head(t)) THEN TRUE
    ELSE IF CodePoint(Head(s)) > CodePoint(Head(t)) THEN FALSE
    ELSE StrLess(Tail(s), Tail(t))

\* pathlib: path / component; a "." component is dropped
JoinPath(p, c) == IF c = Dot THEN p ELSE Append(p, c)

\* pathlib: Path.name, empty for "." and "/"
PathName(p) == IF p = <<>> THEN <<>> ELSE p[Len(p)]

\* str.rfind("."), 0 when there is none (positions count from 1)
RECURSIVE RFindDot(_, _)
RFindDot(s, i) ==
    IF i = 0 THEN 0
    ELSE IF s[i] = "." THEN i
    ELSE RFindDot(s, i - 1)

\* pathlib: Path.suffix of a file name
Suffix(n) ==
    LET i == RFindDot(n, Len(n))
    IN IF 1 < i /\ i < Len(n) THEN SubSeq(n, i, Len(n)) ELSE <<>>

\* pathlib: Path.stem of a file name
Stem(n) ==
    LET i == RFindDot(n, Len(n))
    IN IF 1 < i /\ i < Len(n) THEN SubSeq(n, 1, i - 1) ELSE n

\* whether a path relative to the output root stays inside it once ".."
\* components are resolved; depth is the number of components below the root
RECURSIVE StaysInside(_, _)
StaysInside(p, depth) ==
    IF p = <<>> THEN TRUE
    ELSE IF Head(p) = DotDot
         THEN depth > 0 /\ StaysInside(Tail(p), depth - 1)
         ELSE StaysInside(Tail(p), depth + 1)

(***************************************************************************)
(* The input tree and the image library                                    *)
(***************************************************************************)
\* a file of a directory: its name, what its bytes are, and the pixel size
\* Image.open reports for it
FileTxt ==
    [name |-> <<"r", ".", "t", "x", "t">>, content |-> "junk", size |-> <<0, 0>>]
FileJpg ==
    [name |-> <<"x", ".", "j", "p", "g">>, content |-> "jpeg", size |-> <<4000, 2000>>]
FilePng ==
    [name |-> <<"y", ".", "p", "n", "g">>, content |-> "png_rgb", size |-> <<300, 400>>]
FileRgba ==
    [name |-> <<"z", ".", "p", "n", "g">>, content |-> "png_rgba", size |-> <<64, 64>>]
\* files whose names and content do not go together the usual way
FileSameStem ==
    [name |-> <<"x", ".", "p", "n", "g">>, content |-> "png_rgb", size |-> <<300, 400>>]
FileThumbStem ==
    [name |-> <<"x", ".", "t", "h", "u", "m", "b", ".", "p", "n", "g">>,
     content |-> "png_rgb", size |-> <<300, 400>>]
FileMisnamed ==
    [name |-> <<"w", ".", "j", "p", "g">>, content |-> "png_rgba", size |-> <<64, 64>>]
\* a file two levels below the input root, in <subdirectory>/n/
FileDeep ==
    [name |-> <<"d", ".", "j", "p", "g">>, content |-> "jpeg", size |-> <<4000, 2000>>]

FilePool == {FileTxt, FileJpg, FilePng, FileRgba}
WidePool == FilePool \cup {FileSameStem, FileThumbStem, FileMisnamed}
DirNames == {NameA, NameB}

\* sequences over S without repetition, of length at most n
DistinctSeqs(S, n) ==
    UNION {{s \in [1..k -> S] : \A i, j \in 1..k : i # j => s[i] # s[j]} : k \in 0..n}

\* what argparse's type=Path can hand to main() as --indir
RootPaths == {<<>>, <<NameA>>, <<DotDot>>}

\* Image.open(file); img.load(): raises IOError unless the content is an image
Decodes(f) == f.content # "junk"

\* img.save(<name>.jpg): the JPEG writer raises OSError for an RGBA image
CanSaveJpeg(f) == f.content \in {"jpeg", "png_rgb"}

VARIABLES
    indir,       \* args.indir
    rootKind,    \* "dir", "file" or "missing": what args.indir is on disk
    dirs,        \* the immediate subdirectories, in os.walk order
    files,       \* files[1]: files of the root, files[k+1]: files of dirs[k]
    blocked,     \* names under the output root that are regular files
    outBlocked,  \* the output root cannot be created
    threads,     \* args.threads
    yres,        \* args.yres
    pc,          \* position of main()
    jobs,        \* jobs[j]: the dirpath submitted as job j
    status,      \* status[j]: "queued", "running", "done", "failed", "cancelled"
    dirname,     \* dirname[j]: res.name of job j, <<>> before it starts
    pos,         \* pos[j]: index of the next file job j handles
    images,      \* images[j]: res.images of job j
    res,         \* main's res list
    collected,   \* jobs as_completed has yielded
    disk,        \* files written under the output root, with their origin
    madeDirs,    \* output folders in use, with the job that made them
    index,       \* index.html: whether it was written, and its sections
    exitcode     \* -1 while main runs

inputs == <<indir, rootKind, dirs, files, blocked, outBlocked, threads, yres>>
workerVars == <<status, dirname, pos, images, disk, madeDirs>>
vars == <<indir, rootKind, dirs, files, blocked, outBlocked, threads, yres, pc,
          jobs, status, dirname, pos, images, res, collected, disk, madeDirs,
          index, exitcode>>

NoPage == [written |-> FALSE, body |-> <<>>]

\* number of files in the listings fs[1..n]
RECURSIVE TotalFiles(_, _)
TotalFiles(fs, n) == IF n = 0 THEN 0 ELSE Len(fs[n]) + TotalFiles(fs, n - 1)

Jobs == 1..Len(jobs)

\* default of --yres
DefaultYres == 480

\* image sizes and thumbnail heights tried; the last ones are those of the
\* scenario of a 4000x2000 image with a height of 240
ImageSizes == ((1..MaxSide) \X (1..MaxSide)) \cup {<<4000, 2000>>, <<2000, 4000>>}
Heights == (1..MaxHeight) \cup {240}

\* main before its first statement
Start ==
    /\ pc = "start"
    /\ jobs = <<>>
    /\ status = <<>>
    /\ dirname = <<>>
    /\ pos = <<>>
    /\ images = <<>>
    /\ res = <<>>
    /\ collected = {}
    /\ disk = {}
    /\ madeDirs = {}
    /\ index = NoPage
    /\ exitcode = -1

Init ==
    /\ indir \in RootPaths
    /\ rootKind \in {"dir", "file", "missing"}
    /\ dirs \in DistinctSeqs(DirNames, Cardinality(DirNames))
    /\ files \in [1..(1 + Len(dirs)) -> DistinctSeqs(FilePool, MaxFiles)]
    /\ TotalFiles(files, 1 + Len(dirs)) <= MaxFiles
    /\ blocked \in {{}, {NameA}}
    /\ outBlocked \in BOOLEAN
    \* what main never looks at is left out
    /\ rootKind # "dir" \/ outBlocked => dirs = <<>> /\ files[1] = <<>> /\ blocked = {}
    /\ outBlocked => rootKind = "dir" /\ threads = 1 /\ indir = <<>>
    /\ threads \in 1..MaxThreads
    /\ yres = DefaultYres
    /\ Start

\* one directory without subdirectories, with files of any kind in it
InitDir ==
    /\ indir = <<NameA>>
    /\ rootKind = "dir"
    /\ dirs = <<>>
    /\ files \in [{1} -> DistinctSeqs(WidePool, MaxFiles)]
    /\ blocked = {}
    /\ outBlocked = FALSE
    /\ threads = 1
    /\ yres = DefaultYres
    /\ Start

\* one directory with one image of any size, and any thumbnail height
InitThumb ==
    /\ indir = <<NameA>>
    /\ rootKind = "dir"
    /\ dirs = <<>>
    /\ \E f \in {FileJpg, FilePng, FileRgba}, sz \in ImageSizes :
          files = <<<<[f EXCEPT !.size = sz]>>>>
    /\ blocked = {}
    /\ outBlocked = FALSE
    /\ threads = 1
    /\ yres \in Heights
    /\ Start

(***************************************************************************)
(* render_subdir                                                           *)
(***************************************************************************)
\* dirname = Path(dirpath).name, "." when that is empty
DirName(dirpath) ==
    LET n == PathName(dirpath)
    IN IF n = <<>> THEN Dot ELSE n

\* outpath = Path(outbase) / dirname, as a path relative to the output root
OutPath(dirpath) == JoinPath(<<>>, DirName(dirpath))

\* outpath.mkdir(exist_ok=True, parents=True) raises FileExistsError when
\* outpath exists and is not a directory
MkdirFails(outpath) == outpath # <<>> /\ PathName(outpath) \in blocked

\* the files directly inside a directory unit
DirectFiles(dirpath) ==
    IF dirpath = indir THEN files[1]
    ELSE files[1 + CHOOSE k \in 1..Len(dirs) : dirs[k] = PathName(dirpath)]

\* os.walk below the subdirectories dirs[k..]: each one, then its nested
\* directory n, which holds FileDeep
RECURSIVE WalkBelow(_)
WalkBelow(k) ==
    IF k > Len(dirs) THEN <<>>
    ELSE <<files[k + 1], <<FileDeep>>>> \o WalkBelow(k + 1)

\* os.walk(dirpath), top down: the file list of every directory it visits
OsWalk(dirpath) ==
    IF dirpath = indir THEN <<files[1]>> \o WalkBelow(1)
    ELSE <<DirectFiles(dirpath), <<FileDeep>>>>

RECURSIVE Flatten(_)
Flatten(ss) == IF ss = <<>> THEN <<>> ELSE Head(ss) \o Flatten(Tail(ss))

\* ListFiles without the break of line 67: every directory os.walk visits
ListFilesNoBreak(dirpath) == Flatten(OsWalk(dirpath))

\* for root, _, files in os.walk(dirpath): for file in files: ...; break
ListFiles(dirpath) == OsWalk(dirpath)[1]

FullName(f) == Stem(f.name) \o JpgExt
ThumbName(f) == Stem(f.name) \o ThumbExt

\* file.suffix.lower() in [".jpg", ".jpeg"]
IsJpegSuffix(f) ==
    Lower(Suffix(f.name)) \in {JpgExt, <<".", "j", "p", "e", "g">>}

\* f"{dirname}/{name}"
RelPath(dn, name) == dn \o <<"/">> \o name

RenderedImg(f, dn) ==
    [filename |-> f.name,
     relimgpath |-> RelPath(dn, FullName(f)),
     relthumbpath |-> RelPath(dn, ThumbName(f))]

Abs(n) == IF n < 0 THEN -n ELSE n
Max(m, n) == IF m >= n THEN m ELSE n
Min(m, n) == IF m <= n THEN m ELSE n

\* ThumbBox with a box of twice the height
ThumbBoxWide(height) == <<2 * height, height>>

\* (int(height*1.5), height)
ThumbBox(height) == <<(3 * height) \div 2, height>>

\* Image.thumbnail(box) on an image of size sz: the size it is reduced to.
\* The image is left alone when it fits; otherwise one side becomes the
\* box's and the other is the floor or the ceiling of the exact value,
\* whichever keeps the aspect ratio closer, and at least 1.
Thumbnail(sz, box) ==
    LET w == sz[1]
        h == sz[2]
        x == box[1]
        y == box[2]
        fx == (y * w) \div h
        cx == IF (y * w) % h = 0 THEN fx ELSE fx + 1
        fy == (x * h) \div w
        cy == IF (x * h) % w = 0 THEN fy ELSE fy + 1
    IN IF x >= w /\ y >= h THEN sz
       ELSE IF x * h >= w * y
         THEN <<Max(IF Abs(w * y - fx * h) <= Abs(w * y - cx * h) THEN fx ELSE cx, 1), y>>
       ELSE <<x, Max(IF fy = 0 \/ Abs(w * fy - x * h) * cy <= Abs(w * cy - x * h) * fy
                       THEN fy ELSE cy, 1)>>

\* lines 54-59: the full-size file, copied when the suffix is .jpg or .jpeg
FullWrite(f, out) ==
    [path |-> Append(out, FullName(f)),
     kind |-> "full",
     how |-> IF IsJpegSuffix(f) THEN "copy" ELSE "encode",
     enc |-> IF IsJpegSuffix(f) THEN f.content ELSE "jpeg",
     size |-> f.size]

\* lines 61-65: the thumbnail
ThumbWrite(f, out) ==
    [path |-> Append(out, ThumbName(f)),
     kind |-> "thumb",
     how |-> "encode",
     enc |-> "jpeg",
     size |-> Thumbnail(f.size, ThumbBox(yres))]

\* HandleFile without the try/except around Image.open and img.load
HandleFileNoCatch(f, out, dn) ==
    LET full == FullWrite(f, out)
        thumb == ThumbWrite(f, out)
    IN IF ~Decodes(f)
         THEN [end |-> "raise", writes |-> <<>>]
       ELSE IF ~(IsJpegSuffix(f) \/ CanSaveJpeg(f))
         THEN [end |-> "raise", writes |-> <<>>]
       ELSE IF ~CanSaveJpeg(f)
         THEN [end |-> "raise", writes |-> <<full>>]
       ELSE [end |-> "append", writes |-> <<full, thumb>>]

\* One iteration of the loop over files: what is written under outpath and
\* how the iteration ends: "continue" (decode error caught), "append" (the
\* record is appended) or "raise" (an exception leaves render_subdir).
HandleFile(f, out, dn) ==
    LET full == FullWrite(f, out)
        thumb == ThumbWrite(f, out)
    IN IF ~Decodes(f)
         THEN [end |-> "continue", writes |-> <<>>]
       ELSE IF ~(IsJpegSuffix(f) \/ CanSaveJpeg(f))
         THEN [end |-> "raise", writes |-> <<>>]
       ELSE IF ~CanSaveJpeg(f)
         THEN [end |-> "raise", writes |-> <<full>>]
       ELSE [end |-> "append", writes |-> <<full, thumb>>]

\* writing a file replaces whatever was at that path
RECURSIVE WriteAll(_, _, _, _)
WriteAll(d, ws, j, i) ==
    IF ws = <<>> THEN d
    ELSE WriteAll({e \in d : e.path # Head(ws).path}
                    \cup {[path |-> Head(ws).path, kind |-> Head(ws).kind,
                           how |-> Head(ws).how, enc |-> Head(ws).enc,
                           size |-> Head(ws).size, job |-> j, file |-> i]},
                  Tail(ws), j, i)

RenderedSubdir(j) == [name |-> dirname[j], images |-> images[j]]

(***************************************************************************)
(* The process pool                                                        *)
(***************************************************************************)
Running == {j \in Jobs : status[j] = "running"}
Queued == {j \in Jobs : status[j] = "queued"}
Finished == {j \in Jobs : status[j] \in {"done", "failed", "cancelled"}}

\* ExitPool as shutdown(cancel_futures=True) would do it
ExitPoolCancelling(st) ==
    [j \in 1..Len(st) |-> IF st[j] = "queued" THEN "cancelled" ELSE st[j]]

\* Executor.__exit__ is shutdown(wait=True): pending futures are left to run
ExitPool(st) == st

\* a free worker takes the oldest queued job and runs lines 37-44
StartTask(j) ==
    /\ j \in Queued
    /\ \A k \in Queued : j <= k
    /\ Cardinality(Running) < threads
    /\ dirname' = [dirname EXCEPT ![j] = DirName(jobs[j])]
    /\ IF MkdirFails(OutPath(jobs[j]))
         THEN /\ status' = [status EXCEPT ![j] = "failed"]
              /\ madeDirs' = madeDirs
         ELSE /\ status' = [status EXCEPT ![j] = "running"]
              /\ madeDirs' = madeDirs \cup {[path |-> OutPath(jobs[j]), job |-> j]}
    /\ UNCHANGED <<inputs, pc, jobs, pos, images, res, collected, disk, index,
                   exitcode>>

\* one iteration of the loop of lines 46-66
ProcessFile(j) ==
    /\ j \in Running
    /\ pos[j] <= Len(ListFiles(jobs[j]))
    /\ LET f == ListFiles(jobs[j])[pos[j]]
           h == HandleFile(f, OutPath(jobs[j]), dirname[j])
       IN /\ disk' = WriteAll(disk, h.writes, j, pos[j])
          /\ status' = [status EXCEPT ![j] = IF h.end = "raise" THEN "failed" ELSE @]
          /\ pos' = [pos EXCEPT ![j] = IF h.end = "raise" THEN @ ELSE @ + 1]
          /\ images' = [images EXCEPT ![j] =
                          IF h.end = "append" THEN Append(@, RenderedImg(f, dirname[j]))
                          ELSE @]
    /\ UNCHANGED <<inputs, pc, jobs, dirname, res, collected, madeDirs, index,
                   exitcode>>

\* return res
FinishTask(j) ==
    /\ j \in Running
    /\ pos[j] > Len(ListFiles(jobs[j]))
    /\ status' = [status EXCEPT ![j] = "done"]
    /\ UNCHANGED <<inputs, pc, jobs, dirname, pos, images, res, collected, disk,
                   madeDirs, index, exitcode>>

(***************************************************************************)
(* main                                                                    *)
(***************************************************************************)
\* the dirpaths of lines 109-114: root/"." and then root/dir for each dir;
\* os.walk yields nothing for a root that is missing or not a directory
WalkUnits ==
    IF rootKind # "dir" THEN <<>>
    ELSE <<JoinPath(indir, Dot)>> \o [k \in 1..Len(dirs) |-> JoinPath(indir, dirs[k])]

\* outpath.mkdir(exist_ok=True)
MkOutdir ==
    /\ pc = "start"
    /\ IF outBlocked
         THEN pc' = "crashed" /\ exitcode' = 1
         ELSE pc' = "walk" /\ exitcode' = exitcode
    /\ UNCHANGED <<inputs, jobs, workerVars, res, collected, index>>

\* the loop of lines 109-114: one exc.submit per unit, in walk order
SubmitAll ==
    /\ pc = "walk"
    /\ jobs' = WalkUnits
    /\ status' = [j \in 1..Len(WalkUnits) |-> "queued"]
    /\ dirname' = [j \in 1..Len(WalkUnits) |-> <<>>]
    /\ pos' = [j \in 1..Len(WalkUnits) |-> 1]
    /\ images' = [j \in 1..Len(WalkUnits) |-> <<>>]
    /\ pc' = "collect"
    /\ UNCHANGED <<inputs, res, collected, disk, madeDirs, index, exitcode>>

\* Collect that keeps only the directories with images
CollectNonEmpty(j) ==
    /\ pc = "collect"
    /\ j \in Finished \ collected
    /\ collected' = collected \cup {j}
    /\ IF status[j] = "done"
         THEN /\ res' = IF images[j] = <<>> THEN res ELSE Append(res, RenderedSubdir(j))
              /\ pc' = pc
              /\ status' = status
         ELSE /\ res' = res
              /\ pc' = "unwind"
              /\ status' = ExitPool(status)
    /\ UNCHANGED <<inputs, jobs, dirname, pos, images, disk, madeDirs, index,
                   exitcode>>

\* for job in as_completed(jobs): res.append(job.result())
Collect(j) ==
    /\ pc = "collect"
    /\ j \in Finished \ collected
    /\ collected' = collected \cup {j}
    /\ IF status[j] = "done"
         THEN /\ res' = Append(res, RenderedSubdir(j))
              /\ pc' = pc
              /\ status' = status
         ELSE /\ res' = res
              /\ pc' = "unwind"
              /\ status' = ExitPool(status)
    /\ UNCHANGED <<inputs, jobs, dirname, pos, images, disk, madeDirs, index,
                   exitcode>>

\* LeavePool that does not wait for the jobs
LeavePoolEarly ==
    /\ pc = "collect"
    /\ pc' = "write"
    /\ UNCHANGED <<inputs, jobs, workerVars, res, collected, index, exitcode>>

\* the with block ends normally once every job was yielded
LeavePool ==
    /\ pc = "collect"
    /\ collected = Jobs
    /\ pc' = "write"
    /\ UNCHANGED <<inputs, jobs, workerVars, res, collected, index, exitcode>>

\* the exception of job.result() leaves main once the pool has shut down
Unwind ==
    /\ pc = "unwind"
    /\ Finished = Jobs
    /\ pc' = "crashed"
    /\ exitcode' = 1
    /\ UNCHANGED <<inputs, jobs, workerVars, res, collected, index>>

\* insert d after every element whose name is not greater (sorted is stable)
RECURSIVE InsertByName(_, _)
InsertByName(s, d) ==
    IF s = <<>> THEN <<d>>
    ELSE IF StrLess(d.name, Head(s).name) THEN <<d>> \o s
    ELSE <<Head(s)>> \o InsertByName(Tail(s), d)

\* sorted(res, key=lambda d: d.name)
RECURSIVE SortedByName(_)
SortedByName(s) ==
    IF s = <<>> THEN <<>>
    ELSE InsertByName(SortedByName(SubSeq(s, 1, Len(s) - 1)), s[Len(s)])

\* the body of index.html: one section per directory, divid counted from 1
PageOf(r) ==
    LET sd == SortedByName(r)
    IN [k \in 1..Len(sd) |-> [name |-> sd[k].name, divid |-> k, images |-> sd[k].images]]

IndexHtml == <<"i", "n", "d", "e", "x", ".", "h", "t", "m", "l">>

\* the components of a "/"-separated path; cur is the component being read
RECURSIVE SplitSlash(_, _)
SplitSlash(s, cur) ==
    IF s = <<>> THEN <<cur>>
    ELSE IF Head(s) = "/" THEN <<cur>> \o SplitSlash(Tail(s), <<>>)
    ELSE SplitSlash(Tail(s), Append(cur, Head(s)))

IsNotDot(c) == c # Dot

\* the file an href or src of index.html names, relative to the output root
ResolveRel(rel) == SelectSeq(SplitSlash(rel, <<>>), IsNotDot)

\* lines 119-163
WriteIndex ==
    /\ pc = "write"
    /\ index' = [written |-> TRUE, body |-> PageOf(res)]
    /\ pc' = "done"
    /\ exitcode' = 0
    /\ UNCHANGED <<inputs, jobs, workerVars, res, collected>>

Next ==
    \/ MkOutdir
    \/ SubmitAll
    \/ \E j \in Jobs : StartTask(j)
    \/ \E j \in Jobs : ProcessFile(j)
    \/ \E j \in Jobs : FinishTask(j)
    \/ \E j \in Jobs : Collect(j)
    \/ LeavePool
    \/ Unwind
    \/ WriteIndex

Spec == Init /\ [][Next]_vars

\* the same program on a single directory
SpecDir == InitDir /\ [][Next]_vars

\* the same program on a single image
SpecThumb == InitThumb /\ [][Next]_vars

TypeOK ==
    /\ pc \in {"start", "walk", "collect", "unwind", "write", "done", "crashed"}
    /\ Len(jobs) <= 1 + Len(dirs)
    /\ \A j \in Jobs : status[j] \in {"queued", "running", "done", "failed", "cancelled"}
    /\ Cardinality(Running) <= threads

(***************************************************************************)
(* Properties                                                              *)
(***************************************************************************)
Terminated == pc \in {"done", "crashed"}
Succeeded == {j \in Jobs : status[j] = "done"}

\* C1: when a unit's task fails, the run still ends by writing index.html,
\* and the page lists exactly the units whose tasks succeeded.
C1_FailedUnitOmitted ==
    (Terminated /\ \E j \in Jobs : status[j] = "failed") =>
        /\ index # NoPage
        /\ Len(index.body) = Cardinality(Succeeded)
        /\ \A j \in Succeeded :
             \E k \in 1..Len(index.body) :
                index.body[k].name = dirname[j] /\ index.body[k].images = images[j]

\* a job fails by an error of its own: its folder cannot be made, or the file
\* it stopped at raised
OwnFailure(j) ==
    \/ MkdirFails(OutPath(jobs[j]))
    \/ /\ pos[j] <= Len(ListFiles(jobs[j]))
       /\ HandleFile(ListFiles(jobs[j])[pos[j]], OutPath(jobs[j]), dirname[j]).end = "raise"

\* C2: a failed unit never cancels its siblings: no job is ever cancelled, and
\* main does not end before every submitted job has run to its own end (its
\* return, or an error of its own).
C2_SiblingsNotCancelled ==
    /\ \A j \in Jobs : status[j] # "cancelled"
    /\ Terminated =>
         \A j \in Jobs :
            \/ status[j] = "done" /\ pos[j] = Len(ListFiles(jobs[j])) + 1
            \/ status[j] = "failed" /\ OwnFailure(j)

\* C2 witness: main has seen a failure while one sibling runs and another is
\* still queued.
C2_Witness ==
    /\ pc = "unwind"
    /\ \E j \in Jobs : status[j] = "running"
    /\ \E j \in Jobs : status[j] = "queued"

\* C3: with a missing or non-directory input root no task is dispatched, no
\* index.html is written and the run ends with a non-zero exit status.
C3_InputNotFoundIsFatal ==
    rootKind # "dir" =>
        /\ jobs = <<>>
        /\ index = NoPage
        /\ Terminated => exitcode # 0

\* C4: the root unit is named "." whatever the root path is, and each
\* subdirectory unit is named by its base name.
C4_RootSentinelName ==
    \A j \in Jobs :
        status[j] # "queued" =>
            dirname[j] = IF j = 1 THEN Dot ELSE dirs[j - 1]

\* C5: the units of one run use pairwise distinct output folders.
C5_DistinctOutputFolders ==
    \A m, n \in madeDirs : m.job # n.job => m.path # n.path

\* C6: every file a renderer writes lies inside the output root.
C6_WritesInsideOutputRoot ==
    \A d \in disk : StaysInside(d.path, 0)

\* C7: the sections of index.html are in strictly ascending ordinal order of
\* display name.
C7_StrictlyAscendingSections ==
    index # NoPage =>
        \A k \in 1..(Len(index.body) - 1) :
            StrLess(index.body[k].name, index.body[k + 1].name)

\* C8: index.html does not depend on the order in which the tasks complete:
\* every run that writes it writes the page of the run in which the tasks
\* complete in submission order, so any two runs on the same input agree.
C8_PageIndependentOfCompletionOrder ==
    index # NoPage =>
        index.body = PageOf([j \in Jobs |-> RenderedSubdir(j)])

\* C9: a file that fails to decode is skipped and nothing else: it never ends
\* its unit, it leaves no record and no output file, and every decodable file
\* handled so far, before or after it, has its record, in listing order.
C9_DecodeFailureSkipsFile ==
    \A j \in Jobs :
        LET fs == ListFiles(jobs[j])
            handled == SubSeq(fs, 1, pos[j] - 1)
            good == SelectSeq(handled, Decodes)
        IN /\ dirname[j] # <<>> =>
                images[j] = [k \in 1..Len(good) |-> RenderedImg(good[k], dirname[j])]
           /\ \A i \in 1..Len(fs) :
                ~Decodes(fs[i]) =>
                    /\ ~(status[j] = "failed" /\ ~MkdirFails(OutPath(jobs[j])) /\ pos[j] = i)
                    /\ \A d \in disk : ~(d.job = j /\ d.file = i)
                    /\ status[j] = "done" => pos[j] > i

\* C9 witness: a unit returned with the record of a file listed after one that
\* failed to decode, while another unit returned too.
C9_Witness ==
    \E j, k \in Jobs :
        /\ j # k
        /\ status[j] = "done" /\ status[k] = "done"
        /\ \E i \in 1..Len(ListFiles(jobs[j])) :
             /\ ~Decodes(ListFiles(jobs[j])[i])
             /\ i < Len(ListFiles(jobs[j]))
             /\ Len(images[j]) = 1

\* C10: a file that decodes but cannot be encoded never makes its unit fail.
C10_EncodeFailureRecovered ==
    \A j \in Jobs :
        (status[j] = "failed" /\ pos[j] <= Len(ListFiles(jobs[j]))) =>
            ~Decodes(ListFiles(jobs[j])[pos[j]]) \/ MkdirFails(OutPath(jobs[j]))

\* C11: a run in which no unit fails collects exactly one record per unit of
\* the scan (the root and each immediate subdirectory), each unit being
\* submitted once; a unit without a decodable file has its record too, with
\* an empty image list.
C11_OneRecordPerUnit ==
    pc \in {"write", "done"} =>
        /\ Len(jobs) = IF rootKind = "dir" THEN 1 + Len(dirs) ELSE 0
        /\ \A j \in Jobs : jobs[j] = IF j = 1 THEN indir ELSE Append(indir, dirs[j - 1])
        /\ Len(res) = Len(jobs)
        /\ \E p \in [Jobs -> Jobs] :
             /\ \A j, k \in Jobs : j # k => p[j] # p[k]
             /\ \A k \in Jobs :
                  res[k] = [name |-> DirName(jobs[p[k]]), images |-> images[p[k]]]
        /\ \A j \in Jobs :
             (\A i \in 1..Len(DirectFiles(jobs[j])) : ~Decodes(DirectFiles(jobs[j])[i]))
                 => images[j] = <<>>

\* C11 witness: three units were collected, one of them holding a file but
\* no decodable one.
C11_Witness ==
    /\ pc = "done"
    /\ Len(res) = 3
    /\ \E j \in Jobs : DirectFiles(jobs[j]) # <<>> /\ images[j] = <<>>

\* C12: units are the root and its immediate subdirectories only, and an
\* invocation handles only the files directly inside its directory: no file
\* of a deeper directory gets a record or an output file.
C12_OneLevelOnly ==
    /\ \A j \in Jobs : jobs[j] = indir \/ \E k \in 1..Len(dirs) : jobs[j] = Append(indir, dirs[k])
    /\ \A j \in Jobs :
         /\ pos[j] <= Len(DirectFiles(jobs[j])) + 1
         /\ \A k \in 1..Len(images[j]) :
              /\ \E i \in 1..Len(DirectFiles(jobs[j])) :
                   DirectFiles(jobs[j])[i].name = images[j][k].filename
              /\ images[j][k].filename # FileDeep.name
    /\ \A d \in disk :
         /\ d.file <= Len(DirectFiles(jobs[d.job]))
         /\ PathName(d.path) \notin {FullName(FileDeep), ThumbName(FileDeep)}

\* C12 witness: the root unit and a subdirectory unit both returned, the
\* subdirectory (which holds a nested directory) with an image of its own.
C12_Witness ==
    \E j \in Jobs :
        /\ j > 1
        /\ status[1] = "done" /\ status[j] = "done"
        /\ Len(images[j]) >= 1
        /\ Len(OsWalk(jobs[j])) > 1

\* C13: a thumbnail's longer side is at most 1.5 times the height, its shorter
\* side at most the height, and its sides are those of the source scaled by
\* one factor, up to the rounding of one side to a whole pixel; a 4000x2000
\* image with height 240 gives at most 360x240.
C13_ThumbnailFitsBox ==
    \A d \in disk :
        d.kind = "thumb" =>
            LET src == DirectFiles(jobs[d.job])[d.file].size
                w == src[1]
                h == src[2]
                tw == d.size[1]
                th == d.size[2]
            IN /\ tw >= 1 /\ th >= 1
               /\ 2 * Max(tw, th) <= 3 * yres
               /\ Min(tw, th) <= yres
               /\ Abs(tw * h - th * w) < Max(w, h)
               /\ (yres = 240 /\ src = <<4000, 2000>>) => tw <= 360 /\ th <= 240

\* C13 witness: the 4000x2000 image was reduced for height 240.
C13_Witness ==
    /\ yres = 240
    /\ \E d \in disk :
         /\ d.kind = "thumb"
         /\ DirectFiles(jobs[d.job])[d.file].size = <<4000, 2000>>
         /\ d.size = <<360, 180>>

\* the file at position i of job j has been handled: passed, or abandoned
HandledFile(j, i) ==
    \/ i < pos[j]
    \/ i = pos[j] /\ status[j] = "failed" /\ ~MkdirFails(OutPath(jobs[j]))

\* C14: once a file has been handled, its full-size copy and its thumbnail
\* are both in the output folder or neither is.
C14_FullAndThumbTogether ==
    \A j \in Jobs :
        \A i \in 1..Len(ListFiles(jobs[j])) :
            HandledFile(j, i) =>
                LET f == ListFiles(jobs[j])[i]
                    out == OutPath(jobs[j])
                IN (\E d \in disk : d.path = Append(out, FullName(f)))
                     <=> (\E d \in disk : d.path = Append(out, ThumbName(f)))

\* C15: index.html is written by main only, and only once every submitted
\* task has finished: main is not at the write, and the page is not there,
\* while a task is queued or running, and no task writes a file of that name.
C15_IndexAfterAllTasks ==
    /\ (pc = "write" \/ index.written) => \A j \in Jobs : status[j] \in {"done", "failed"}
    /\ index.written => pc = "done"
    /\ \A d \in disk : PathName(d.path) # IndexHtml

\* C15 witness: the page is written after three tasks ran on two workers and
\* wrote files.
C15_Witness ==
    /\ index.written
    /\ Len(jobs) = 3
    /\ threads = 2
    /\ disk # {}

\* C16: within a unit no thumbnail path equals a full-size path, of the same
\* file or of another one.
C16_ThumbNeverFullPath ==
    \A j \in Jobs :
        \A a, b \in 1..Len(images[j]) :
            images[j][a].relthumbpath # images[j][b].relimgpath

\* C17: when the page is built, both paths of every collected image name
\* files that exist under the output root.
C17_ImagePathsExist ==
    pc \in {"write", "done"} =>
        \A k \in 1..Len(res) :
            \A a \in 1..Len(res[k].images) :
                LET im == res[k].images[a]
                IN /\ \E d \in disk : d.path = ResolveRel(im.relimgpath)
                   /\ \E d \in disk : d.path = ResolveRel(im.relthumbpath)
                   /\ StaysInside(ResolveRel(im.relimgpath), 0)
                   /\ StaysInside(ResolveRel(im.relthumbpath), 0)

\* C18: a full-size output is a verbatim copy exactly when the source is JPEG
\* encoded, and it is JPEG encoded in every case.
C18_FullSizeNormalized ==
    \A d \in disk :
        d.kind = "full" =>
            /\ d.how = "copy" <=> ListFiles(jobs[d.job])[d.file].content = "jpeg"
            /\ d.enc = "jpeg"

\* C19: within a unit the records of distinct source files have distinct
\* full-size paths.
C19_DistinctFullPaths ==
    \A j \in Jobs :
        \A a, b \in 1..Len(images[j]) :
            a # b => images[j][a].relimgpath # images[j][b].relimgpath

====
